---- MODULE Spec2Model ----
(***************************************************************************)
(* Model of libzfs/src/lib.rs (rust-libzfs): the owning wrappers around    *)
(* native libzfs handles (Libzfs, Zpool, Zfs), the thread-pool bracket of  *)
(* find_importable_pools, and the recursive vdev tree decoder              *)
(* enumerate_vdev_tree.                                                    *)
(***************************************************************************)
EXTENDS Integers, Sequences, FiniteSets, TLC

VARIABLES
    handles,      \* one record per wrapper ever constructed (its raw pointer)
    live,         \* indices of handles whose wrapper has not been dropped
    lastOutcome,  \* how the last operation ended
    threadPool,   \* native thread pools currently initialised
    fipCalls,     \* native calls made by the last find_importable_pools
    tree,         \* the nvlist given to enumerate_vdev_tree
    result        \* what enumerate_vdev_tree returned for it

vars == <<handles, live, lastOutcome, threadPool, fipCalls, tree, result>>

(***************************************************************************)
(* Bounds                                                                  *)
(***************************************************************************)
MaxHandles == 4   \* wrappers constructed in one run
MaxIter == 2      \* handles one native iteration hands to its callback
MaxLen == 2       \* elements of a children / spares / l2cache array

NotRun == [run |-> FALSE]

(***************************************************************************)
(* Handle wrappers                                                         *)
(***************************************************************************)
NoCtx == 0

\* A wrapper struct { raw } as left by its constructor.  null: raw is the
\* null pointer.  closes: native close calls made with raw.  late: a close
\* was made after the owning context's libzfs_fini.
Wrapper(kind, ctx, null) ==
    [kind |-> kind, ctx |-> ctx, null |-> null, closes |-> 0, late |-> FALSE]

Finalized(hs, c) == c # NoCtx /\ hs[c].closes > 0

\* libzfs_fini / zpool_close / zfs_close (self.raw)
NativeClose(hs, h) ==
    [hs EXCEPT ![h].closes = @ + 1,
               ![h].late = @ \/ Finalized(hs, hs[h].ctx)]

\* impl Drop for Zfs
ZfsDrop(hs, h) == NativeClose(hs, h)

\* impl Drop for Zpool
ZpoolDrop(hs, h) == NativeClose(hs, h)

\* impl Drop for Libzfs
LibzfsDrop(hs, h) == NativeClose(hs, h)

DropOf(hs, h) ==
    CASE hs[h].kind = "libzfs" -> LibzfsDrop(hs, h)
      [] hs[h].kind = "zpool" -> ZpoolDrop(hs, h)
      [] hs[h].kind = "zfs" -> ZfsDrop(hs, h)

\* Dropping a Vec<Zpool> / Vec<Zfs>: every element is dropped, in order.
RECURSIVE DropVec(_, _)
DropVec(hs, ids) ==
    IF ids = <<>> THEN hs ELSE DropVec(DropOf(hs, Head(ids)), Tail(ids))

\* The handles a native iteration passes to the callback, each pushed into
\* the state vector as a fresh wrapper.
Pushed(hs, kind, ctx, k) ==
    hs \o [i \in 1..k |-> Wrapper(kind, ctx, FALSE)]

NewIds(hs, k) == [i \in 1..k |-> Len(hs) + i]

SeqRange(s) == {s[i] : i \in 1..Len(s)}

LiveOf(kind) == {h \in live : handles[h].kind = kind}

\* A context usable for native calls: the wrapper holds a non-null pointer.
\* What libzfs does when handed a null context is not decided by lib.rs.
Contexts == {c \in LiveOf("libzfs") : ~handles[c].null}

DecoderIdle == UNCHANGED <<tree, result>>

\* Libzfs::new: wraps whatever libzfs_init returned, null included.
Libzfs_new ==
    /\ Len(handles) < MaxHandles
    /\ \E null \in BOOLEAN :
         /\ handles' = Append(handles, Wrapper("libzfs", NoCtx, null))
         /\ live' = live \cup {Len(handles) + 1}
    /\ lastOutcome' = "ok"
    /\ UNCHANGED <<threadPool, fipCalls>>
    /\ DecoderIdle

\* Libzfs::pool_by_name
pool_by_name(c) ==
    /\ c \in Contexts
    /\ \/ /\ lastOutcome' = "none"          \* zpool_open_canfail gave null
          /\ UNCHANGED <<handles, live>>
       \/ /\ Len(handles) < MaxHandles
          /\ handles' = Append(handles, Wrapper("zpool", c, FALSE))
          /\ live' = live \cup {Len(handles) + 1}
          /\ lastOutcome' = "some"
    /\ UNCHANGED <<threadPool, fipCalls>>
    /\ DecoderIdle

\* Libzfs::dataset_by_name
dataset_by_name(c) ==
    /\ c \in Contexts
    /\ \/ /\ lastOutcome' = "none"          \* zfs_path_to_zhandle gave null
          /\ UNCHANGED <<handles, live>>
       \/ /\ Len(handles) < MaxHandles
          /\ handles' = Append(handles, Wrapper("zfs", c, FALSE))
          /\ live' = live \cup {Len(handles) + 1}
          /\ lastOutcome' = "some"
    /\ UNCHANGED <<threadPool, fipCalls>>
    /\ DecoderIdle

\* Libzfs::get_imported_pools: zpool_iter pushed k pools and returned code.
get_imported_pools(c) ==
    /\ c \in Contexts
    /\ \E k \in 0..MaxIter, code \in {0, 1} :
         /\ Len(handles) + k <= MaxHandles
         /\ LET pushed == Pushed(handles, "zpool", c, k)
                state == NewIds(handles, k)
            IN IF code = 0
               THEN /\ handles' = pushed
                    /\ live' = live \cup SeqRange(state)
                    /\ lastOutcome' = "ok"
               ELSE /\ handles' = DropVec(pushed, state)
                    /\ live' = live
                    /\ lastOutcome' = "err"
    /\ UNCHANGED <<threadPool, fipCalls>>
    /\ DecoderIdle

\* The effect of Zpool::datasets on the handle table once zfs_open returned
\* a non-null root dataset handle: ds wraps it, the callback pushes k
\* handles, and ds is dropped at the end of the function on both paths.
datasets_leak_root(hs, ctx, k, code) ==
    LET ds == Len(hs) + 1
        opened == Append(hs, Wrapper("zfs", ctx, FALSE))
        pushed == Pushed(opened, "zfs", ctx, k)
        state == NewIds(opened, k)
    IN IF code = 0 THEN pushed ELSE DropVec(pushed, state)
datasets_handles(hs, ctx, k, code) ==
    LET ds == Len(hs) + 1
        opened == Append(hs, Wrapper("zfs", ctx, FALSE))
        pushed == Pushed(opened, "zfs", ctx, k)
        state == NewIds(opened, k)
    IN IF code = 0
       THEN ZfsDrop(pushed, ds)
       ELSE ZfsDrop(DropVec(pushed, state), ds)

\* Zpool::datasets
datasets(p) ==
    /\ p \in LiveOf("zpool")
    /\ \/ /\ lastOutcome' = "panic"      \* assert!(!x.is_null()) fails
          /\ UNCHANGED <<handles, live>>
       \/ \E k \in 0..MaxIter, code \in {0, 1} :
            /\ Len(handles) + 1 + k <= MaxHandles
            /\ handles' = datasets_handles(handles, handles[p].ctx, k, code)
            /\ live' = IF code = 0
                       THEN live \cup {Len(handles) + 1 + i : i \in 1..k}
                       ELSE live
            /\ lastOutcome' = IF code = 0 THEN "ok" ELSE "err"
    /\ UNCHANGED <<threadPool, fipCalls>>
    /\ DecoderIdle

\* A wrapper goes out of scope.  Zpool and Zfs carry no lifetime tying them
\* to the Libzfs they came from, so the owner may drop them in any order.
Drop(h) ==
    /\ h \in live
    /\ handles' = DropOf(handles, h)
    /\ live' = live \ {h}
    /\ UNCHANGED <<lastOutcome, threadPool, fipCalls>>
    /\ DecoderIdle

(***************************************************************************)
(* find_importable_pools                                                   *)
(***************************************************************************)
\* The native calls of one find_importable_pools, in program order; found
\* tells whether zpool_find_import returned a non-null list.
find_importable_pools_early_return(found) ==
    IF found
    THEN <<"thread_init", "zpool_find_import", "thread_fini">>
    ELSE <<"thread_init", "zpool_find_import">>
find_importable_pools_calls(found) ==
    <<"thread_init", "zpool_find_import", "thread_fini">>

\* Thread pools left initialised after the given native calls.
RECURSIVE ThreadsAfter(_, _)
ThreadsAfter(n, calls) ==
    IF calls = <<>> THEN n
    ELSE ThreadsAfter(CASE Head(calls) = "thread_init" -> n + 1
                        [] Head(calls) = "thread_fini" -> n - 1
                        [] OTHER -> n,
                      Tail(calls))

\* Libzfs::find_importable_pools
find_importable_pools(c) ==
    /\ c \in Contexts
    /\ \E found \in BOOLEAN :
         /\ fipCalls' = find_importable_pools_calls(found)
         /\ threadPool' = ThreadsAfter(threadPool, fipCalls')
         /\ lastOutcome' = IF found THEN "list" ELSE "nulllist"
    /\ UNCHANGED <<handles, live>>
    /\ DecoderIdle

(***************************************************************************)
(* nvlist values and the nvpair accessors                                  *)
(***************************************************************************)
\* A u64 is four 16-bit limbs, most significant first.
Zero == <<0, 0, 0, 0>>
One == <<0, 0, 0, 1>>
Small(n) == <<0, 0, 0, n>>
Above32(n) == <<0, 1, 0, n>>      \* 2^32 + n

\* A byte string that is not valid UTF-8.
BadBytes == "<FF>"
IsUtf8(s) == s # BadBytes

Absent == [t |-> "absent"]
Str(s) == [t |-> "string", s |-> s]
U64(x) == [t |-> "uint64", n |-> x]
U64Array(a) == [t |-> "uint64_array", a |-> a]
NvListArray(l) == [t |-> "nvlist_array", l |-> l]

Keys == {"type", "path", "dev_id", "phys_path", "whole_disk", "guid",
         "is_log", "vdev_stats", "children", "spares", "l2cache"}

None == [some |-> FALSE]
Some(x) == [some |-> TRUE, x |-> x]

Ok(v) == [ok |-> TRUE, v |-> v]
Err(e) == [ok |-> FALSE, e |-> e]

\* LibZfsError::Io(io::Error) and LibZfsError::IntoString
IoError(kind, msg) == [variant |-> "Io", kind |-> kind, msg |-> msg]
IntoStringError == [variant |-> "IntoString"]

\* The error of a failed nvlist lookup: key absent or stored with another type.
LookupError == IoError("NotFound", "nvlist lookup")

lookup_string(nvl, key) ==
    IF nvl[key].t = "string" THEN Ok(nvl[key].s) ELSE Err(LookupError)

lookup_uint64(nvl, key) ==
    IF nvl[key].t = "uint64" THEN Ok(nvl[key].n) ELSE Err(LookupError)

lookup_uint64_array(nvl, key) ==
    IF nvl[key].t = "uint64_array" THEN Ok(nvl[key].a) ELSE Err(LookupError)

lookup_nv_list_array(nvl, key) ==
    IF nvl[key].t = "nvlist_array" THEN Ok(nvl[key].l) ELSE Err(LookupError)

\* CString::into_string
into_string(s) == IF IsUtf8(s) THEN Ok(s) ELSE Err(IntoStringError)

(***************************************************************************)
(* format!("{:#018X}", x)                                                  *)
(***************************************************************************)
HexChars == <<"0", "1", "2", "3", "4", "5", "6", "7",
              "8", "9", "A", "B", "C", "D", "E", "F">>

\* The hexadecimal digits of a u64, most significant first, no leading zeros
\* (one digit for zero).
AllNibbles(x) ==
    [i \in 1..16 |->
        LET limb == x[((i - 1) \div 4) + 1]
            pos == (i - 1) % 4
        IN CASE pos = 0 -> limb \div 4096
             [] pos = 1 -> (limb \div 256) % 16
             [] pos = 2 -> (limb \div 16) % 16
             [] pos = 3 -> limb % 16]

RECURSIVE StripZeros(_)
StripZeros(ds) ==
    IF Len(ds) > 1 /\ Head(ds) = 0 THEN StripZeros(Tail(ds)) ELSE ds

RECURSIVE Render(_)
Render(ds) == IF ds = <<>> THEN "" ELSE HexChars[Head(ds) + 1] \o Render(Tail(ds))

RECURSIVE Zeros(_)
Zeros(n) == IF n <= 0 THEN "" ELSE "0" \o Zeros(n - 1)

\* '#' writes the 0x prefix, '0' pads with zeros after it, 18 is the minimum
\* width of the whole string, 'X' is uppercase hexadecimal.
FormatWidth == 18
Format016X(x) ==
    LET ds == StripZeros(AllNibbles(x))
    IN "0x" \o Zeros(16 - 2 - Len(ds)) \o Render(ds)
Format018X(x) ==
    LET ds == StripZeros(AllNibbles(x))
    IN "0x" \o Zeros(FormatWidth - 2 - Len(ds)) \o Render(ds)

\* Zpool::guid_hex, given what self.guid() returned
guid_hex(guid) == Format018X(guid)

(***************************************************************************)
(* Vdev state derivation                                                   *)
(***************************************************************************)
VDEV_STATE_CLOSED == 1
VDEV_STATE_OFFLINE == 2
VDEV_STATE_REMOVED == 3
VDEV_STATE_CANT_OPEN == 4
VDEV_STATE_FAULTED == 5
VDEV_STATE_DEGRADED == 6
VDEV_STATE_HEALTHY == 7
VDEV_AUX_CORRUPT_DATA == 2
VDEV_AUX_BAD_LOG == 13
VDEV_AUX_SPLIT_POOL == 15

\* vdev_stat_t from the packed array: vs_timestamp, vs_state, vs_aux, ...
to_vdev_stat(xs) == [vs_state |-> xs[2], vs_aux |-> xs[3]]

\* `as u32` on a u64: the low 32 bits
AsU32(x) == <<x[3], x[4]>>

\* The enumerant with this numeric value, if there is one.
to_vdev_state(v) ==
    IF v[1] = 0 /\ v[2] <= VDEV_STATE_HEALTHY THEN Some(v[2]) ELSE None

to_vdev_aux(v) ==
    IF v[1] = 0 /\ v[2] <= VDEV_AUX_SPLIT_POOL THEN Some(v[2]) ELSE None

zpool_state_to_name(state, aux) ==
    CASE state \in {VDEV_STATE_CLOSED, VDEV_STATE_OFFLINE} -> "OFFLINE"
      [] state = VDEV_STATE_REMOVED -> "REMOVED"
      [] state = VDEV_STATE_CANT_OPEN ->
            IF aux \in {VDEV_AUX_CORRUPT_DATA, VDEV_AUX_BAD_LOG} THEN "FAULTED"
            ELSE IF aux = VDEV_AUX_SPLIT_POOL THEN "SPLIT"
            ELSE "UNAVAIL"
      [] state = VDEV_STATE_FAULTED -> "FAULTED"
      [] state = VDEV_STATE_DEGRADED -> "DEGRADED"
      [] state = VDEV_STATE_HEALTHY -> "ONLINE"
      [] OTHER -> "UNKNOWN"

lookup_state(nvl) ==
    LET arr == lookup_uint64_array(nvl, "vdev_stats")
    IN IF ~arr.ok THEN arr
       ELSE LET vdev_stats == to_vdev_stat(arr.v)
                st == to_vdev_state(AsU32(vdev_stats.vs_state))
                aux == to_vdev_aux(AsU32(vdev_stats.vs_aux))
            IN IF ~st.some
               THEN Err(IoError("NotFound", "vs_state not in enum range"))
               ELSE IF ~aux.some
               THEN Err(IoError("NotFound", "vs_aux not in enum range"))
               ELSE into_string(zpool_state_to_name(st.x, aux.x))

(***************************************************************************)
(* enumerate_vdev_tree                                                     *)
(***************************************************************************)
lookup_tree_str_strict(nvl, name) ==
    LET x == lookup_string(nvl, name)
    IN IF x.ok
       THEN LET s == into_string(x.v) IN IF s.ok THEN Ok(Some(s.v)) ELSE s
       ELSE x
lookup_tree_str(nvl, name) ==
    LET x == lookup_string(nvl, name)
    IN IF x.ok
       THEN LET s == into_string(x.v) IN IF s.ok THEN Ok(Some(s.v)) ELSE s
       ELSE Ok(None)

\* lookup_uint64(key).map(|x| x == 1).ok()
lookup_flag(nvl, key) ==
    LET x == lookup_uint64(nvl, key)
    IN IF x.ok THEN Some(x.v = One) ELSE None

lookup_is_log(nvl) == lookup_flag(nvl, "is_log")

lookup_guid(nvl) ==
    LET x == lookup_uint64(nvl, "guid")
    IN IF x.ok THEN Some(Format018X(x.v)) ELSE None

RECURSIVE enumerate_vdev_tree(_)

\* xs.iter().map(enumerate_vdev_tree).collect::<Result<Vec<VDev>>>():
\* the elements in order, stopping at the first error.
RECURSIVE CollectFrom(_, _, _)
CollectFrom(xs, i, acc) ==
    IF i > Len(xs) THEN Ok(acc)
    ELSE LET r == enumerate_vdev_tree(xs[i])
         IN IF r.ok THEN CollectFrom(xs, i + 1, Append(acc, r.v)) ELSE r

Collect(xs) == CollectFrom(xs, 1, <<>>)

RECURSIVE SkipFailed(_, _, _)
SkipFailed(xs, i, acc) ==
    IF i > Len(xs) THEN Ok(acc)
    ELSE LET r == enumerate_vdev_tree(xs[i])
         IN SkipFailed(xs, i + 1, IF r.ok THEN Append(acc, r.v) ELSE acc)

get_children_skipping(nvl) ==
    LET x == lookup_nv_list_array(nvl, "children")
    IN IF x.ok THEN SkipFailed(x.v, 1, <<>>) ELSE x
get_children(nvl) ==
    LET x == lookup_nv_list_array(nvl, "children")
    IN IF x.ok THEN Collect(x.v) ELSE x

get_spares_strict(nvl) ==
    LET spares == lookup_nv_list_array(nvl, "spares")
    IN IF spares.ok THEN Collect(spares.v) ELSE spares
get_spares(nvl) ==
    LET spares == lookup_nv_list_array(nvl, "spares")
    IN IF spares.ok THEN Collect(spares.v) ELSE Ok(<<>>)

get_cache_from_spares(nvl) ==
    LET cache == lookup_nv_list_array(nvl, "spares")
    IN IF cache.ok THEN Collect(cache.v) ELSE Ok(<<>>)
get_cache(nvl) ==
    LET cache == lookup_nv_list_array(nvl, "l2cache")
    IN IF cache.ok THEN Collect(cache.v) ELSE Ok(<<>>)

\* x if x == sys::VDEV_TYPE_DISK => ...
DiskArm(nvl) ==
    LET raw == lookup_string(nvl, "path")
        path == IF raw.ok THEN into_string(raw.v) ELSE raw
        dev_id == lookup_tree_str(nvl, "dev_id")
        phys_path == lookup_tree_str(nvl, "phys_path")
        whole_disk == lookup_flag(nvl, "whole_disk")
        state == lookup_state(nvl)
    IN IF ~path.ok THEN path
       ELSE IF ~dev_id.ok THEN dev_id
       ELSE IF ~phys_path.ok THEN phys_path
       ELSE IF ~state.ok THEN state
       ELSE Ok([variant |-> "Disk",
                guid |-> lookup_guid(nvl),
                state |-> state.v,
                path |-> path.v,
                dev_id |-> dev_id.v,
                phys_path |-> phys_path.v,
                whole_disk |-> whole_disk,
                is_log |-> lookup_is_log(nvl)])

\* x if x == sys::VDEV_TYPE_FILE => ...
FileArm(nvl) ==
    LET raw == lookup_string(nvl, "path")
        path == IF raw.ok THEN into_string(raw.v) ELSE raw
        state == lookup_state(nvl)
    IN IF ~path.ok THEN path
       ELSE IF ~state.ok THEN state
       ELSE Ok([variant |-> "File",
                guid |-> lookup_guid(nvl),
                state |-> state.v,
                path |-> path.v,
                is_log |-> lookup_is_log(nvl)])

\* x if x == sys::VDEV_TYPE_MIRROR => ...
MirrorArm(nvl) ==
    LET children == get_children(nvl)
    IN IF ~children.ok THEN children
       ELSE Ok([variant |-> "Mirror",
                children |-> children.v,
                is_log |-> lookup_flag(nvl, "is_log")])

\* x if x == sys::VDEV_TYPE_RAIDZ / VDEV_TYPE_REPLACING => ...
GroupArm(nvl, variant) ==
    LET children == get_children(nvl)
    IN IF ~children.ok THEN children
       ELSE Ok([variant |-> variant, children |-> children.v])

\* x if x == sys::VDEV_TYPE_ROOT => ...
RootArm(nvl) ==
    LET children == get_children(nvl)
        spares == get_spares(nvl)
        cache == get_cache(nvl)
    IN IF ~children.ok THEN children
       ELSE IF ~spares.ok THEN spares
       ELSE IF ~cache.ok THEN cache
       ELSE Ok([variant |-> "Root",
                children |-> children.v,
                spares |-> spares.v,
                cache |-> cache.v])

enumerate_vdev_tree(nvl) ==
    LET tmp == lookup_string(nvl, "type")
    IN IF ~tmp.ok THEN tmp
       ELSE CASE tmp.v = "disk" -> DiskArm(nvl)
              [] tmp.v = "file" -> FileArm(nvl)
              [] tmp.v = "mirror" -> MirrorArm(nvl)
              [] tmp.v = "raidz" -> GroupArm(nvl, "RaidZ")
              [] tmp.v = "replacing" -> GroupArm(nvl, "Replacing")
              [] tmp.v = "root" -> RootArm(nvl)
              [] OTHER -> Err(IoError("NotFound", "hit unknown vdev type"))

Init ==
    /\ handles = <<>>
    /\ live = {}
    /\ lastOutcome = "start"
    /\ threadPool = 0
    /\ fipCalls = <<>>
    /\ tree = NotRun
    /\ result = NotRun

Next ==
    \/ Libzfs_new
    \/ \E c \in 1..MaxHandles : pool_by_name(c)
    \/ \E c \in 1..MaxHandles : dataset_by_name(c)
    \/ \E c \in 1..MaxHandles : get_imported_pools(c)
    \/ \E p \in 1..MaxHandles : datasets(p)
    \/ \E c \in 1..MaxHandles : find_importable_pools(c)
    \/ \E h \in 1..MaxHandles : Drop(h)

Spec == Init /\ [][Next]_vars

(***************************************************************************)
(* Decoder inputs: the nvlists enumerate_vdev_tree is applied to           *)
(***************************************************************************)
EmptyNvl == [k \in Keys |-> Absent]

SeqsUpTo(S, n) == UNION {[1..k -> S] : k \in 0..n}

\* vdev_stats arrays <<vs_timestamp, vs_state, vs_aux>>
Stats(state, aux) == U64Array(<<Small(9), state, aux>>)

StatsVals ==
    {Absent, U64(One),
     Stats(Small(VDEV_STATE_HEALTHY), Zero),
     Stats(Small(VDEV_STATE_CANT_OPEN), Small(VDEV_AUX_CORRUPT_DATA)),
     Stats(Zero, Zero),
     Stats(Small(VDEV_STATE_HEALTHY + 1), Zero),
     Stats(Small(VDEV_STATE_HEALTHY), Small(VDEV_AUX_SPLIT_POOL + 1)),
     Stats(Above32(VDEV_STATE_HEALTHY), Zero),
     Stats(Small(VDEV_STATE_HEALTHY), Above32(0))}

PathVals == {Absent, Str("/dev/sdb1"), Str(BadBytes), U64(One)}
DevIdVals == {Absent, Str("ata-QEMU-1"), Str(BadBytes), U64(One)}
PhysPathVals == {Absent, Str("pci-0000:00:01"), U64(One)}
WholeDiskVals == {Absent, U64(Zero), U64(One), Str("1")}
GuidVals == {Absent, U64(Small(26)), U64(<<65535, 0, 43981, 1>>), Str("26")}
IsLogVals == {Absent, U64(One), U64(Small(2)), Str("1")}

\* disk and file nodes with every combination of the fields their arms read
LeafInputs ==
    {[EmptyNvl EXCEPT !["type"] = Str(ty), !["path"] = path,
                      !["dev_id"] = dev_id, !["phys_path"] = phys_path,
                      !["whole_disk"] = whole_disk, !["guid"] = guid,
                      !["is_log"] = is_log, !["vdev_stats"] = stats] :
        ty \in {"disk", "file"}, path \in PathVals, dev_id \in DevIdVals,
        phys_path \in PhysPathVals, whole_disk \in WholeDiskVals,
        guid \in GuidVals, is_log \in IsLogVals, stats \in StatsVals}

\* nodes whose type key is absent, mistyped or outside the vocabulary
UntypedInputs ==
    {[EmptyNvl EXCEPT !["type"] = ty, !["path"] = path,
                      !["vdev_stats"] = stats] :
        ty \in {Absent, U64(One), Str("bogus"), Str(BadBytes)},
        path \in {Absent, Str("/dev/sdb1")},
        stats \in {Absent, Stats(Small(VDEV_STATE_HEALTHY), Zero)}}

Disk(path) ==
    [EmptyNvl EXCEPT !["type"] = Str("disk"), !["path"] = Str(path),
                     !["whole_disk"] = U64(One), !["guid"] = U64(Small(26)),
                     !["vdev_stats"] = Stats(Small(VDEV_STATE_HEALTHY), Zero)]

Group(ty, children) ==
    [EmptyNvl EXCEPT !["type"] = Str(ty), !["children"] = children]

Bogus == [EmptyNvl EXCEPT !["type"] = Str("bogus")]
DiskNoStats == [Disk("/dev/sdg1") EXCEPT !["vdev_stats"] = Absent]
\* a disk that carries a children array, which the disk arm never reads
DiskWithChildren ==
    [Disk("/dev/sdh1") EXCEPT !["children"] = NvListArray(<<Bogus>>)]

\* what a children / spares / l2cache key may hold
ArrayVals(S) == {Absent, U64(One)} \cup {NvListArray(l) : l \in SeqsUpTo(S, MaxLen)}

GroupKids == {Disk("/dev/sdb1"), Disk("/dev/sdc1"), Bogus}

GroupInputs ==
    {[Group(ty, children) EXCEPT !["is_log"] = is_log] :
        ty \in {"mirror", "raidz", "replacing"},
        children \in ArrayVals(GroupKids), is_log \in {Absent, U64(One)}}

RootKids ==
    {Group("mirror", NvListArray(<<Disk("/dev/sdb1"), Disk("/dev/sdc1")>>)),
     Group("raidz", NvListArray(<<Group("replacing", NvListArray(<<Bogus>>))>>)),
     Group("mirror", NvListArray(<<Disk("/dev/sdb1"), DiskNoStats>>)),
     DiskWithChildren}
SpareKids == {Disk("/dev/sde1"), Disk("/dev/sdf1"), Bogus}
CacheKids == {Disk("/dev/sdd1"), DiskNoStats}

RootInputs ==
    {[EmptyNvl EXCEPT !["type"] = Str("root"), !["children"] = children,
                      !["spares"] = spares, !["l2cache"] = cache] :
        children \in ArrayVals(RootKids), spares \in ArrayVals(SpareKids),
        cache \in ArrayVals(CacheKids)}

DecodeInputs == LeafInputs \cup UntypedInputs \cup GroupInputs \cup RootInputs

Decoded == "ok" \in DOMAIN result

\* One call of enumerate_vdev_tree on the given nvlist.
Decode ==
    /\ ~Decoded
    /\ result' = enumerate_vdev_tree(tree)
    /\ UNCHANGED <<handles, live, lastOutcome, threadPool, fipCalls, tree>>

InitDecode ==
    /\ handles = <<>>
    /\ live = {}
    /\ lastOutcome = "start"
    /\ threadPool = 0
    /\ fipCalls = <<>>
    /\ tree \in DecodeInputs
    /\ result = NotRun

NextDecode == Decode

SpecDecode == InitDecode /\ [][NextDecode]_vars

(***************************************************************************)
(* Guid rendering: Zpool::guid_hex and the decoder's lookup_guid applied   *)
(* to the same u64                                                         *)
(***************************************************************************)
\* limbs with leading zeros, letters A-F and all bits set
LimbVals == {0, 1, 26, 43981, 65535}

GuidInputs == {<<a, b, c, d>> : a \in LimbVals, b \in LimbVals,
                                c \in LimbVals, d \in LimbVals}

GuidNode(g) == [EmptyNvl EXCEPT !["guid"] = U64(g)]

\* the guid both calls are given: the pool's guid property, stored under the
\* guid key of the nvlist as well
TheGuid == tree["guid"].n

Rendered == "op" \in DOMAIN result

\* Zpool::guid_hex on a pool whose guid property is TheGuid
GuidHex ==
    /\ ~Rendered
    /\ result' = [op |-> "guid_hex", s |-> Some(guid_hex(TheGuid))]
    /\ UNCHANGED <<handles, live, lastOutcome, threadPool, fipCalls, tree>>

\* lookup_guid, as the disk and file arms call it
LookupGuid ==
    /\ ~Rendered
    /\ result' = [op |-> "lookup_guid", s |-> lookup_guid(tree)]
    /\ UNCHANGED <<handles, live, lastOutcome, threadPool, fipCalls, tree>>

InitGuid ==
    /\ handles = <<>>
    /\ live = {}
    /\ lastOutcome = "start"
    /\ threadPool = 0
    /\ fipCalls = <<>>
    /\ tree \in {GuidNode(g) : g \in GuidInputs}
    /\ result = NotRun

NextGuid == GuidHex \/ LookupGuid

SpecGuid == InitGuid /\ [][NextGuid]_vars

(***************************************************************************)
(* Properties of the handle wrappers (checked under Spec)                  *)
(***************************************************************************)
Constructed == 1..Len(handles)

\* C1: every native handle that was handed to a wrapper has had its native
\* close called exactly once when the wrapper is gone, and not at all while
\* the wrapper is still owned: never zero times after the drop, never twice.
C1_ClosedExactlyOnce ==
    \A h \in Constructed :
        ~handles[h].null =>
            handles[h].closes = (IF h \in live THEN 0 ELSE 1)

\* Zpool::datasets has failed after the callback pushed a handle: the root
\* dataset handle and the pushed one are gone and closed, the pool is owned.
C1_Witness ==
    /\ lastOutcome = "err"
    /\ LiveOf("zpool") # {}
    /\ \E h, g \in Constructed :
         /\ h # g
         /\ handles[h].kind = "zfs" /\ handles[g].kind = "zfs"
         /\ h \notin live /\ g \notin live
         /\ handles[h].closes = 1 /\ handles[g].closes = 1

\* C2: once libzfs_fini has been called on a context, no Zpool or Zfs handle
\* obtained from it is still open and none of them was closed after it.
C2_ContextTornDownLast ==
    \A h \in Constructed :
        Finalized(handles, handles[h].ctx) =>
            h \notin live /\ ~handles[h].late

\* C3: no handle-constructing operation panics on a native null, and no
\* wrapper ever holds a null pointer.
C3_NullMapsToNone ==
    /\ lastOutcome # "panic"
    /\ \A h \in Constructed : ~handles[h].null

Occurrences(calls, c) == {i \in 1..Len(calls) : calls[i] = c}

\* C4: every find_importable_pools makes exactly one thread_init, then the
\* one zpool_find_import, then exactly one thread_fini, whether or not the
\* native call found a list, and leaves no thread pool initialised.
C4_ThreadPoolBracket ==
    /\ threadPool = 0
    /\ fipCalls # <<>> =>
         \E i, j, k \in 1..Len(fipCalls) :
            /\ i < j /\ j < k
            /\ Occurrences(fipCalls, "thread_init") = {i}
            /\ Occurrences(fipCalls, "zpool_find_import") = {j}
            /\ Occurrences(fipCalls, "thread_fini") = {k}

\* find_importable_pools has returned after zpool_find_import gave null.
C4_Witness ==
    /\ lastOutcome = "nulllist"
    /\ fipCalls # <<>>
    /\ threadPool = 0

(***************************************************************************)
(* Properties of the decoder (checked under SpecDecode)                    *)
(***************************************************************************)
Recognised == {"disk", "file", "mirror", "raidz", "replacing", "root"}

TypeIs(nvl, name) == nvl["type"].t = "string" /\ nvl["type"].s = name

BadTag(nvl) == ~(nvl["type"].t = "string" /\ nvl["type"].s \in Recognised)

IsArray(v) == v.t = "nvlist_array"

ArrayOf(nvl, key) == IF IsArray(nvl[key]) THEN nvl[key].l ELSE <<>>

\* The arrays through which the decoder descends from a node of this type.
ArraysRead(nvl) ==
    IF TypeIs(nvl, "root") THEN {"children", "spares", "l2cache"}
    ELSE IF \E ty \in {"mirror", "raidz", "replacing"} : TypeIs(nvl, ty)
    THEN {"children"}
    ELSE {}

Kids(nvl) == UNION {SeqRange(ArrayOf(nvl, key)) : key \in ArraysRead(nvl)}

RECURSIVE Descendants(_)
Descendants(nvl) == Kids(nvl) \cup UNION {Descendants(k) : k \in Kids(nvl)}

AllDecode(xs) == \A i \in 1..Len(xs) : enumerate_vdev_tree(xs[i]).ok

DecodedInOrder(out, xs) ==
    /\ Len(out) = Len(xs)
    /\ \A i \in 1..Len(xs) : out[i] = enumerate_vdev_tree(xs[i]).v

\* C5: if any node the decoder descends to, at any depth, has a type tag
\* outside the vocabulary or fails to decode for another reason, decoding
\* the root of the tree returns an error and no VDev value.
C5_FailFast ==
    (Decoded /\ \E d \in Descendants(tree) :
                    BadTag(d) \/ ~enumerate_vdev_tree(d).ok)
        => ~result.ok /\ "v" \notin DOMAIN result

\* A root whose children all carry recognised tags failed because of a
\* node two or more levels down.
C5_Witness ==
    /\ Decoded
    /\ TypeIs(tree, "root")
    /\ Kids(tree) # {}
    /\ \A k \in Kids(tree) : ~BadTag(k)
    /\ \E d \in Descendants(tree) : BadTag(d)
    /\ ~result.ok

\* C6: a root whose children, spares and l2cache arrays hold decodable nodes
\* decodes to Root with three sequences of the same lengths, the i-th output
\* element being the decoding of the i-th input element of the same array.
C6_ShapePreserved ==
    (/\ Decoded
     /\ TypeIs(tree, "root")
     /\ IsArray(tree["children"]) /\ AllDecode(tree["children"].l)
     /\ IsArray(tree["spares"]) /\ AllDecode(tree["spares"].l)
     /\ IsArray(tree["l2cache"]) /\ AllDecode(tree["l2cache"].l))
        => /\ result.ok
           /\ result.v.variant = "Root"
           /\ DecodedInOrder(result.v.children, tree["children"].l)
           /\ DecodedInOrder(result.v.spares, tree["spares"].l)
           /\ DecodedInOrder(result.v.cache, tree["l2cache"].l)

\* Two children, two different spares and one cache device came out.
C6_Witness ==
    /\ Decoded
    /\ TypeIs(tree, "root")
    /\ result.ok
    /\ Len(ArrayOf(tree, "children")) = 2
    /\ Len(ArrayOf(tree, "spares")) = 2
    /\ Len(ArrayOf(tree, "l2cache")) = 1
    /\ Len(result.v.children) = 2
    /\ Len(result.v.spares) = 2
    /\ Len(result.v.cache) = 1
    /\ result.v.spares[1] # result.v.spares[2]

\* C7: for a root whose children decode, a spares or l2cache key that is
\* absent or not a nested-list array gives an empty sequence and decoding
\* succeeds (the other of the two keys failing its lookup too, or holding
\* decodable nodes).
C7_LookupFailureIsEmpty ==
    (/\ Decoded
     /\ TypeIs(tree, "root")
     /\ IsArray(tree["children"]) /\ AllDecode(tree["children"].l)
     /\ ~IsArray(tree["spares"]) \/ ~IsArray(tree["l2cache"])
     /\ AllDecode(ArrayOf(tree, "spares"))
     /\ AllDecode(ArrayOf(tree, "l2cache")))
        => /\ result.ok
           /\ result.v.variant = "Root"
           /\ ~IsArray(tree["spares"]) => result.v.spares = <<>>
           /\ ~IsArray(tree["l2cache"]) => result.v.cache = <<>>

\* A root with children, a mistyped spares key and no l2cache key decoded.
C7_Witness ==
    /\ Decoded
    /\ TypeIs(tree, "root")
    /\ Len(ArrayOf(tree, "children")) > 0
    /\ tree["spares"].t = "uint64"
    /\ tree["l2cache"].t = "absent"
    /\ result.ok
    /\ result.v.spares = <<>>
    /\ result.v.cache = <<>>

InDomain(x, max) == x[1] = 0 /\ x[2] = 0 /\ x[3] = 0 /\ x[4] <= max

StatsArray(nvl) == nvl["vdev_stats"].t = "uint64_array"

ValidStats(nvl) ==
    /\ StatsArray(nvl)
    /\ InDomain(nvl["vdev_stats"].a[2], VDEV_STATE_HEALTHY)
    /\ InDomain(nvl["vdev_stats"].a[3], VDEV_AUX_SPLIT_POOL)

ValidText(v) == v.t = "string" /\ IsUtf8(v.s)

\* C8: a disk node with a path and a valid vdev_stats decodes whatever
\* subset of dev_id, phys_path, whole_disk, guid, is_log is absent (the
\* strings that are present being valid text): each absent field is None and
\* each present one carries its own value; a disk node without path or
\* without vdev_stats fails to decode whatever the optional fields are.
C8_OptionalFields ==
    (Decoded /\ TypeIs(tree, "disk")) =>
        /\ (tree["path"].t = "absent" \/ tree["vdev_stats"].t = "absent")
                => ~result.ok
        /\ (/\ ValidText(tree["path"])
            /\ ValidStats(tree)
            /\ \A key \in {"dev_id", "phys_path"} :
                  tree[key].t = "string" => IsUtf8(tree[key].s))
                => /\ result.ok
                   /\ result.v.variant = "Disk"
                   /\ result.v.path = tree["path"].s
                   /\ \A key \in {"dev_id", "phys_path"} :
                        /\ tree[key].t = "absent" => result.v[key] = None
                        /\ tree[key].t = "string"
                              => result.v[key] = Some(tree[key].s)
                   /\ \A key \in {"whole_disk", "is_log"} :
                        /\ tree[key].t = "absent" => result.v[key] = None
                        /\ tree[key].t = "uint64"
                              => result.v[key] = Some(tree[key].n = One)
                   /\ tree["guid"].t = "absent" => result.v.guid = None
                   /\ tree["guid"].t = "uint64" => result.v.guid.some

\* A disk with only path, whole_disk and vdev_stats decoded.
C8_Witness ==
    /\ Decoded
    /\ TypeIs(tree, "disk")
    /\ \A key \in {"dev_id", "phys_path", "guid", "is_log"} :
          tree[key].t = "absent"
    /\ tree["whole_disk"] = U64(One)
    /\ result.ok
    /\ result.v.dev_id = None
    /\ result.v.phys_path = None
    /\ result.v.whole_disk = Some(TRUE)

\* C9: when the vdev-status or the aux-status value of vdev_stats is outside
\* its enumerated domain (values of 2^32 and more included) decoding the
\* disk or file node fails; ONLINE with aux NONE gives the name "ONLINE".
C9_StateRangeCheck ==
    (Decoded /\ (TypeIs(tree, "disk") \/ TypeIs(tree, "file"))
             /\ StatsArray(tree)) =>
        /\ ~ValidStats(tree) => ~result.ok
        /\ (/\ result.ok
            /\ tree["vdev_stats"].a[2] = Small(VDEV_STATE_HEALTHY)
            /\ tree["vdev_stats"].a[3] = Zero) => result.v.state = "ONLINE"

\* The kind of error the caller sees.
ErrorKind(e) == IF e.variant = "Io" THEN e.kind ELSE e.variant

\* Why a node that carries no undecodable string cannot be decoded.
Cause(nvl) ==
    IF BadTag(nvl) THEN "UnknownVdevType"
    ELSE IF ~(TypeIs(nvl, "disk") \/ TypeIs(nvl, "file")) THEN "other"
    ELSE IF nvl["path"].t # "string" \/ ~StatsArray(nvl) THEN "NotFound"
    ELSE IF ~ValidStats(nvl) THEN "InvalidState"
    ELSE "other"

Exemplars ==
    {Bogus, DiskNoStats,
     [Disk("/dev/sdb1") EXCEPT
        !["vdev_stats"] = Stats(Small(VDEV_STATE_HEALTHY + 1), Zero)]}

\* C10: an unknown or absent type, an out-of-range status code and a missing
\* required key are reported with three different error kinds.
C10_DistinguishableErrors ==
    (Decoded /\ ~result.ok
             /\ Cause(tree) \in {"UnknownVdevType", "NotFound", "InvalidState"}
             /\ ErrorKind(result.e) # "IntoString") =>
        \A other \in Exemplars :
            Cause(other) # Cause(tree) =>
                ErrorKind(enumerate_vdev_tree(other).e) # ErrorKind(result.e)

(***************************************************************************)
(* Properties of the guid rendering (checked under SpecGuid)               *)
(***************************************************************************)
UpperHexDigits == {"0", "1", "2", "3", "4", "5", "6", "7",
                   "8", "9", "A", "B", "C", "D", "E", "F"}

CharAt(s, i) == SubSeq(s, i, i)

DigitValue(c) == CHOOSE d \in 0..15 : HexChars[d + 1] = c

\* The u64 written by the 16 digits that follow the two-character prefix.
HexValue(s) ==
    [k \in 1..4 |->
        LET at == 2 + 4 * (k - 1)
        IN DigitValue(CharAt(s, at + 1)) * 4096
           + DigitValue(CharAt(s, at + 2)) * 256
           + DigitValue(CharAt(s, at + 3)) * 16
           + DigitValue(CharAt(s, at + 4))]

WellFormedGuid(s, g) ==
    /\ Len(s) = 18
    /\ SubSeq(s, 1, 2) = "0x"
    /\ \A i \in 3..18 : CharAt(s, i) \in UpperHexDigits
    /\ HexValue(s) = g

\* What the operation that produced result gives for another guid.
RenderedFor(g) ==
    IF result.op = "guid_hex" THEN Some(guid_hex(g))
    ELSE lookup_guid(GuidNode(g))

\* C11: for every u64 guid, lookup_guid and Zpool::guid_hex give a string of
\* exactly 18 characters, "0x" followed by 16 uppercase hexadecimal digits
\* whose value is the guid (0x1A gives "0x000000000000001A"), and another
\* guid gives another string.
C11_GuidFormat ==
    Rendered =>
        /\ result.s.some
        /\ WellFormedGuid(result.s.x, TheGuid)
        /\ TheGuid = Small(26) => result.s.x = "0x000000000000001A"
        /\ \A g \in GuidInputs : g # TheGuid => RenderedFor(g) # result.s

\* The decoder rendered the guid 0x1A.
C11_Witness ==
    /\ Rendered
    /\ result.op = "lookup_guid"
    /\ TheGuid = Small(26)
    /\ result.s = Some("0x000000000000001A")

(***************************************************************************)
(* Mistyped keys (checked under SpecDecode)                                *)
(***************************************************************************)
\* The type the decoder asks for when it looks a key up.
RequestedType(key) ==
    CASE key \in {"type", "path", "dev_id", "phys_path"} -> "string"
      [] key \in {"whole_disk", "guid", "is_log"} -> "uint64"
      [] key = "vdev_stats" -> "uint64_array"
      [] key = "children" -> "nvlist_array"

\* The keys of the claim that the decoder reads for a node of this type.
KeysRead(nvl) ==
    {"type"} \cup
    (CASE TypeIs(nvl, "disk") ->
            {"path", "dev_id", "phys_path", "whole_disk", "guid", "is_log",
             "vdev_stats"}
       [] TypeIs(nvl, "file") -> {"path", "guid", "is_log", "vdev_stats"}
       [] TypeIs(nvl, "mirror") -> {"children", "is_log"}
       [] TypeIs(nvl, "raidz") \/ TypeIs(nvl, "replacing")
            \/ TypeIs(nvl, "root") -> {"children"}
       [] OTHER -> {})

Mistyped(nvl, key) == nvl[key].t \notin {"absent", RequestedType(key)}

\* C12: when a key the decoder reads for a node (type, path, children,
\* dev_id, phys_path, whole_disk, guid, is_log, vdev_stats) is present with
\* another type than the one requested, decoding the node fails; the field
\* is never turned into None or a default.
C12_TypeMismatchAborts ==
    (Decoded /\ \E key \in KeysRead(tree) : Mistyped(tree, key))
        => ~result.ok

====
